---- MODULE Spec2Model ----
(***************************************************************************)
(* Model of slideflow's Heatmap / ModelHeatmap (src/slideflow/heatmap.py): *)
(* construction, synchronous and threaded generation, and the .npz         *)
(* persistence of predictions and uncertainty.                             *)
(*                                                                         *)
(* The Tile Source (slideflow.WSI) and the Inference Interface             *)
(* (sf.model.Features / UncertaintyInterface) are not part of the sources  *)
(* at hand; they are modelled from the specification's contracts.          *)
(***************************************************************************)
EXTENDS Integers, Sequences, FiniteSets, TLC

\* ---------------------------------------------------------------- bounds
MaxGridW == 2        \* slide.grid.shape[0]; the slides are one row of tiles high
MaxExcluded == 1     \* at most this many grid cells are outside the ROI
MaxClasses == 2      \* interface.num_classes
MaxUncertainty == 1  \* interface.num_uncertainty ranges over 0..MaxUncertainty
MaxBatch == 2        \* batch_size is 1 or MaxBatch
MaxWorkers == 2      \* num_threads / num_processes, when given
MaxRuns == 2         \* generate() is called at most this many times
MaxProjects == 2     \* the project paths given to the ProjectWidget are 1..MaxProjects

\* ------------------------------------------------------------- constants
Sentinel == -1       \* grid *= -1
NoCount == 0         \* encodes None for the Optional[int] arguments
EmptyPath == 0       \* encodes the path '' of the ProjectWidget
NoProject == -1      \* encodes None for cur_project and P

\* Optional array values are tagged, so that None, an array and a pickled
\* object can be told apart.
None == [tag |-> "None", v |-> <<>>]
Arr(a) == [tag |-> "array", v |-> a]
ObjNone == [tag |-> "object", v |-> <<>>]   \* what np.savez stores for None

Min(a, b) == IF a < b THEN a ELSE b

\* -------------------------------------------------------- Python slicing
\* Python normalises a slice bound i against a length n: negative bounds
\* count from the end, and the result is clipped to 0..n.
PyBound(i, n) ==
    IF i < 0 THEN (IF i + n < 0 THEN 0 ELSE i + n)
    ELSE (IF i > n THEN n ELSE i)

\* v[:stop]
SliceTo(v, stop) == SubSeq(v, 1, PyBound(stop, Len(v)))

\* v[start:]
SliceFrom(v, start) == SubSeq(v, PyBound(start, Len(v)) + 1, Len(v))

\* a[:, :, :stop] and a[:, :, start:] on an array held as cell -> vector
ArrSliceTo(a, stop) == [c \in DOMAIN a |-> SliceTo(a[c], stop)]
ArrSliceFrom(a, start) == [c \in DOMAIN a |-> SliceFrom(a[c], start)]

\* ------------------------------------------------------------ Tile Source
\* slide.grid.shape is <<w, h>>; a grid location is <<x, y>>.
GridShapes == {<<MaxGridW, 1>>}

\* k-th location of the row-major enumeration of a w-wide grid
LocAt(k, w) == <<((k - 1) % w) + 1, ((k - 1) \div w) + 1>>

AllLocs(shape) == {<<x, y>> : x \in 1..shape[1], y \in 1..shape[2]}

\* tiles(): the locations inside the ROI, in row-major order
TileStream(sl) ==
    LET w == sl.shape[1]
        all == [k \in 1..(w * sl.shape[2]) |-> LocAt(k, w)]
        Keep(loc) == loc \notin sl.excluded
    IN  SelectSeq(all, Keep)

Slides ==
    UNION {{[shape |-> s, excluded |-> e] :
               e \in {x \in SUBSET AllLocs(s) : Cardinality(x) <= MaxExcluded}} :
           s \in GridShapes}

\* ---------------------------------------------------- Inference Interface
\* The interface declares num_features, num_classes and num_uncertainty.
\* Both constructors build it with layers=None, so it has no feature
\* channels. A model without uncertainty support (uq disabled) declares 0
\* uncertainty channels.
Interfaces(uq_) ==
    {[num_features |-> 0, num_classes |-> MaxClasses, num_uncertainty |-> u] :
        u \in IF uq_ THEN 0..MaxUncertainty ELSE {0}}

NumChannels(it) == it.num_features + it.num_classes + it.num_uncertainty

\* output vector of the model for the tile at loc: channel ch of the tile
\* at <<x, y>> is a non-negative activation that identifies tile and channel
Infer(it, loc) == [ch \in 1..NumChannels(it) |-> 100 * loc[2] + 10 * loc[1] + ch]

\* np.ones((d0, d1, nchan)) * -1 : array indexed [y][x], every channel -1
SentinelGrid(d0, d1, nchan) ==
    [c \in (1..d0) \X (1..d1) |-> [ch \in 1..nchan |-> Sentinel]]

\* the grid the interface allocates itself when it is called with grid=None
InterfaceGrid(sl, it, grid) ==
    IF grid = None
    THEN SentinelGrid(sl.shape[2], sl.shape[1], NumChannels(it))
    ELSE grid.v

NumBatches(n, bs) == (n + bs - 1) \div bs

\* a batch that loses its last tile when it is full
Mut_Batch(tiles, bs, b) == SubSeq(tiles, (b - 1) * bs + 1, Min(b * bs - 1, Len(tiles)))

\* b-th batch (1-based) of the tile stream
Batch(tiles, bs, b) == SubSeq(tiles, (b - 1) * bs + 1, Min(b * bs, Len(tiles)))

\* size of the worker pool: num_threads, else num_processes, else one worker
\* per CPU core
PoolSize(nt, np) ==
    IF nt # NoCount THEN nt ELSE IF np # NoCount THEN np ELSE MaxWorkers

\* the batches a pool of w workers may complete next: the first w pending
Window(pending, w) ==
    {b \in pending : Cardinality({p \in pending : p < b}) < w}

\* ------------------------------------------------------------ containers
\* An .npz container is a map from keys to stored values.
ExtValue(k) ==
    Arr([c \in {<<1, 1>>} |->
           <<IF k = "predictions" THEN 5 ELSE IF k = "logits" THEN 6 ELSE 7>>])

\* containers that exist on disk before the program runs
ExtContainers ==
    {[k \in K |-> ExtValue(k)] : K \in SUBSET {"predictions", "logits", "uncertainty"}}

NoFile == [tag |-> "None", v |-> <<>>]
Npz(c) == [tag |-> "npz", v |-> c]

\* ------------------------------------------------------------- the calls
Counts == {NoCount, MaxWorkers}

\* "if stride_div is None: stride_div = 2"
DefaultStrideDiv == 2

\* tile_px / tile_um take two values, so that a slide can match the model
\* or differ from it
TileSizes == {1, 2}

\* the settings a WSI object carries: its tile size and its stride divisor
WSISettings(px, um, sd) == [tile_px |-> px, tile_um |-> um, stride_div |-> sd]

\* The arguments of a constructor call. cls: the class called; slide_kind:
\* whether slide is a path ("str"), a WSI object or anything else; slide:
\* the grid and ROI the Tile Source reports for the slide; wsi: the settings
\* of the WSI object, when slide is one; loads: whether WSI(path, ...)
\* succeeds (else it raises SlideLoadError); stride_div: {} when omitted,
\* else {d}; tile_px, tile_um: those of the model (Heatmap) or the arguments
\* (ModelHeatmap, NoCount when omitted); uq: the model's uq setting
\* (Heatmap) or the argument (ModelHeatmap); interface: what the interface
\* built for the model declares; generator_kwargs: {} when omitted or
\* empty, else {v} for dict(asynchronous=v).
\* The default call is ModelHeatmap(wsi, model, ...) on a WSI object.
Call(sl, nt, np, u, it, bs, g) ==
    [cls |-> "ModelHeatmap", slide_kind |-> "WSI", slide |-> sl,
     wsi |-> WSISettings(1, 1, 1), loads |-> TRUE, stride_div |-> {},
     tile_px |-> NoCount, tile_um |-> NoCount, generator_kwargs |-> {},
     num_threads |-> nt, num_processes |-> np,
     uq |-> u, interface |-> it, batch_size |-> bs, generate |-> g]

\* every call of ModelHeatmap(...) on a WSI object that is modelled
Configs ==
    UNION {{Call(sl, nt, np, u, it, bs, g) :
               sl \in Slides, nt \in Counts, np \in Counts,
               it \in Interfaces(u), bs \in {1, MaxBatch}, g \in BOOLEAN} :
           u \in BOOLEAN}

VARIABLES
    ctor,           \* progress of __init__: "none", "generating", "ok" or the exception raised
    args,           \* the arguments __init__ is called with
    assigned,       \* names of the attributes of self assigned so far
    uq,             \* self.uq
    interface,      \* self.interface
    slide,          \* self.slide: what the Tile Source reports, and its settings
    tile_px,        \* self.tile_px
    tile_um,        \* self.tile_um
    stride_div,     \* self.stride_div
    init_warned,    \* the arguments __init__ warned about ignoring
    num_threads,    \* self.num_threads
    num_processes,  \* self.num_processes
    batch_size,     \* self.batch_size
    predictions,    \* self.predictions
    uncertainty,    \* self.uncertainty
    runs,           \* the calls of _generate made so far, in order
    caller,         \* 0 when the caller is free, else the run it is blocked in
    last,           \* outcome of the caller's last public call
    file,           \* the container written by save_npz
    saved,          \* predictions and uncertainty held when file was written
    figures,        \* what plot() has drawn and save() has written as images
    widget          \* the ProjectWidget: recent_projects, cur_project, user_project, P

vars == <<ctor, args, assigned, uq, interface, slide, tile_px, tile_um,
          stride_div, init_warned, num_threads, num_processes, batch_size,
          predictions, uncertainty, runs, caller, last, file, saved, figures, widget>>

attrs == <<assigned, uq, interface, slide, tile_px, tile_um, stride_div,
           init_warned, num_threads, num_processes, batch_size>>

\* the WSI object: the grid and ROI of the slide, and the settings it was
\* built with
WSIObject(sl, st) ==
    [shape |-> sl.shape, excluded |-> sl.excluded,
     tile_px |-> st.tile_px, tile_um |-> st.tile_um, stride_div |-> st.stride_div]

NoSlide == WSIObject([shape |-> <<0, 0>>, excluded |-> {}], WSISettings(NoCount, NoCount, 0))

\* op: the call; result: what it returned or raised; warned: whether it
\* logged a warning; run: the run it started or joined; arg: the keys of the
\* container it was given
NoCall == [op |-> "none", result |-> "None", warned |-> FALSE, run |-> 0, arg |-> {}]

\* ProjectWidget.__init__; last is the widget's last call
NewWidget ==
    [recent_projects |-> <<>>, cur_project |-> NoProject, user_project |-> EmptyPath,
     P |-> NoProject, last |-> [op |-> "none", project |-> EmptyPath, raised |-> FALSE]]

InitWith(cfgs) ==
    /\ ctor = "none"
    /\ args \in cfgs
    /\ assigned = {}
    /\ uq = FALSE
    /\ interface = [num_features |-> 0, num_classes |-> 0, num_uncertainty |-> 0]
    /\ slide = NoSlide
    /\ tile_px = NoCount
    /\ tile_um = NoCount
    /\ stride_div = 0
    /\ init_warned = {}
    /\ num_threads = NoCount
    /\ num_processes = NoCount
    /\ batch_size = 0
    /\ predictions = None
    /\ uncertainty = None
    /\ runs = <<>>
    /\ caller = 0
    /\ last = NoCall
    /\ file = NoFile
    /\ saved = [predictions |-> None, uncertainty |-> None]
    /\ figures = {}
    /\ widget = NewWidget

Init == InitWith(Configs)

\* ---------------------------------------------------------- construction
\* a check that lets two equal counts through
Mut_BothPools(a) ==
    a.num_processes # NoCount /\ a.num_threads # NoCount /\ a.num_processes # a.num_threads

\* "if num_processes is not None and num_threads is not None"
BothPools(a) == a.num_processes # NoCount /\ a.num_threads # NoCount

AllAttrs == {"uq", "interface", "slide", "tile_px", "tile_um", "stride_div",
             "num_threads", "num_processes", "batch_size", "predictions",
             "uncertainty"}

\* the attributes assigned before the slide argument is looked at: Heatmap
\* builds the interface and reads the model's tile size first, ModelHeatmap
\* builds the interface after the slide
BeforeSlide(a) ==
    IF a.cls = "Heatmap"
    THEN {"uq", "interface", "num_threads", "num_processes", "batch_size",
          "tile_px", "tile_um", "predictions", "uncertainty"}
    ELSE {"uq", "num_threads", "num_processes", "batch_size"}

\* the stride divisor used for a slide given as a path
StrideDivOf(arg) == IF arg = {} THEN DefaultStrideDiv ELSE CHOOSE d \in arg : TRUE

\* a check that compares tile_px only
Mut_TileMismatch(a) == a.wsi.tile_px # a.tile_px

\* Heatmap, slide is a WSI: "slide.tile_px != self.tile_px" or
\* "slide.tile_um != self.tile_um"
TileMismatch(a) == a.wsi.tile_px # a.tile_px \/ a.wsi.tile_um # a.tile_um

\* outcome of the slide stage: the exception raised ("None" when there is
\* none), the attributes assigned in the stage, the values they got, and
\* the arguments warned about
SlideResult(exc, set, st, sl, warned) ==
    [exc |-> exc, set |-> set, tile_px |-> st.tile_px, tile_um |-> st.tile_um,
     stride_div |-> st.stride_div, slide |-> sl, warned |-> warned]

\* the "if isinstance(slide, str) ... elif isinstance(slide, WSI) ... else"
\* of both constructors
SlideStage(a) ==
    LET none == WSISettings(a.tile_px, a.tile_um, 0)
    IN  IF a.slide_kind = "str"
        THEN IF a.cls = "ModelHeatmap" /\ (a.tile_px = NoCount \/ a.tile_um = NoCount)
             THEN SlideResult("ValueError", {}, none, NoSlide, {})
             ELSE LET st == WSISettings(a.tile_px, a.tile_um, StrideDivOf(a.stride_div))
                  IN  IF a.loads
                      THEN SlideResult("None", {"tile_px", "tile_um", "stride_div", "slide"},
                                       st, WSIObject(a.slide, st), {})
                      \* the handler of SlideLoadError formats self.slide.name
                      \* while self.slide has not been assigned
                      ELSE SlideResult("AttributeError", {"tile_px", "tile_um", "stride_div"},
                                       st, NoSlide, {})
        ELSE IF a.slide_kind = "WSI"
        THEN IF a.cls = "Heatmap" /\ TileMismatch(a)
             THEN SlideResult("ValueError", {}, none, NoSlide, {})
             ELSE SlideResult("None", {"tile_px", "tile_um", "stride_div", "slide"},
                              a.wsi, WSIObject(a.slide, a.wsi),
                              (IF a.stride_div # {} THEN {"stride_div"} ELSE {})
                              \cup (IF a.cls = "ModelHeatmap" /\ a.tile_px # NoCount
                                    THEN {"tile_px"} ELSE {})
                              \cup (IF a.cls = "ModelHeatmap" /\ a.tile_um # NoCount
                                    THEN {"tile_um"} ELSE {}))
        ELSE SlideResult("ValueError", {}, none, NoSlide, {})

\* the call self.interface(self.slide, ..., grid=grid): the interface takes
\* the grid it is given, or allocates one, and walks the batches of the
\* tile stream
NewRun(mode, grid, sl, it, bs) ==
    [mode |-> mode,
     grid |-> InterfaceGrid(sl, it, grid),
     pending |-> 1..NumBatches(Len(TileStream(sl)), bs),
     commit |-> <<>>,
     status |-> "running"]

\* a grid left at np.ones(...), without "grid *= -1"
Mut_AsyncGrid(sl, it) ==
    [c \in (1..sl.shape[2]) \X (1..sl.shape[1]) |->
        [ch \in 1..(it.num_features + it.num_classes + it.num_uncertainty) |-> 1]]

\* grid = np.ones((shape[1], shape[0], nf + nc + nu)); grid *= -1
AsyncGrid(sl, it) ==
    SentinelGrid(sl.shape[2], sl.shape[1],
                 it.num_features + it.num_classes + it.num_uncertainty)

\* a constructor that generates whatever the flag says
Mut_CtorGenerates(a) == TRUE

\* "if generate: self.generate(**generator_kwargs)"
CtorGenerates(a) == a.generate

\* "elif generator_kwargs: log.warn(...)"
KwargsIgnored(a) == ~a.generate /\ a.generator_kwargs # {}

\* the asynchronous argument that generator_kwargs hands to generate()
KwargsAsync(a) == a.generator_kwargs = {TRUE}

\* Heatmap.__init__ / ModelHeatmap.__init__
Heatmap_init ==
    /\ ctor = "none"
    /\ IF BothPools(args)
       THEN /\ ctor' = "ValueError"
            /\ UNCHANGED <<attrs, predictions, uncertainty, runs, caller>>
       ELSE LET r == SlideStage(args)
                set == BeforeSlide(args) \cup r.set
                           \cup (IF r.exc = "None" THEN AllAttrs ELSE {})
            IN  /\ assigned' = set
                /\ uq' = args.uq
                /\ interface' = IF "interface" \in set THEN args.interface ELSE interface
                /\ slide' = r.slide
                /\ tile_px' = IF "tile_px" \in set THEN r.tile_px ELSE tile_px
                /\ tile_um' = IF "tile_um" \in set THEN r.tile_um ELSE tile_um
                /\ stride_div' = IF "stride_div" \in set THEN r.stride_div ELSE stride_div
                /\ init_warned' = r.warned \cup
                        (IF r.exc = "None" /\ KwargsIgnored(args)
                         THEN {"generator_kwargs"} ELSE {})
                /\ num_threads' = args.num_threads
                /\ num_processes' = args.num_processes
                /\ batch_size' = args.batch_size
                /\ predictions' = None
                /\ uncertainty' = None
                /\ IF r.exc # "None"
                   THEN /\ ctor' = r.exc
                        /\ UNCHANGED <<runs, caller>>
                   ELSE IF CtorGenerates(args) /\ KwargsAsync(args)
                   \* the grid and the thread that generate() returns are dropped
                   THEN /\ ctor' = "ok"
                        /\ runs' = <<NewRun("async", Arr(AsyncGrid(r.slide, args.interface)),
                                            r.slide, args.interface, args.batch_size)>>
                        /\ caller' = 0
                   ELSE IF CtorGenerates(args)
                   THEN /\ ctor' = "generating"
                        /\ runs' = <<NewRun("sync", None, r.slide,
                                            args.interface, args.batch_size)>>
                        /\ caller' = 1
                   ELSE /\ ctor' = "ok"
                        /\ UNCHANGED <<runs, caller>>
    /\ UNCHANGED <<args, last, file, saved, figures, widget>>

\* ------------------------------------------------------------- generation
\* a generate() that cancels the runs still alive before it starts one
Mut_generateCancel(asynchronous) ==
    /\ ctor = "ok"
    /\ caller = 0
    /\ Len(runs) < MaxRuns
    /\ runs' = Append([i \in DOMAIN runs |->
                          IF runs[i].status \in {"running", "assigning"}
                          THEN [runs[i] EXCEPT !.status = "cancelled"]
                          ELSE runs[i]],
                      NewRun(IF asynchronous THEN "async" ELSE "sync",
                             IF asynchronous THEN Arr(AsyncGrid(slide, interface)) ELSE None,
                             slide, interface, batch_size))
    /\ caller' = IF asynchronous THEN 0 ELSE Len(runs) + 1
    /\ last' = [op |-> "generate",
                result |-> IF asynchronous THEN "grid, thread" ELSE "blocked",
                warned |-> FALSE, run |-> Len(runs) + 1, arg |-> {}]
    /\ UNCHANGED <<ctor, args, attrs, predictions, uncertainty, file, saved, figures, widget>>

\* a generate() that waits for the thread before it returns
Mut_generate(asynchronous) ==
    /\ ctor = "ok"
    /\ caller = 0
    /\ Len(runs) < MaxRuns
    /\ runs' = Append(runs, NewRun(IF asynchronous THEN "async" ELSE "sync",
                                   IF asynchronous THEN Arr(AsyncGrid(slide, interface)) ELSE None,
                                   slide, interface, batch_size))
    /\ caller' = Len(runs) + 1
    /\ last' = [op |-> "generate", result |-> "blocked",
                warned |-> FALSE, run |-> Len(runs) + 1, arg |-> {}]
    /\ UNCHANGED <<ctor, args, attrs, predictions, uncertainty, file, saved, figures, widget>>

\* Heatmap.generate(asynchronous)
generate(asynchronous) ==
    /\ ctor = "ok"
    /\ caller = 0
    /\ Len(runs) < MaxRuns
    /\ IF asynchronous
       THEN /\ runs' = Append(runs, NewRun("async", Arr(AsyncGrid(slide, interface)),
                                           slide, interface, batch_size))
            /\ caller' = 0
            /\ last' = [op |-> "generate", result |-> "grid, thread",
                        warned |-> FALSE, run |-> Len(runs) + 1, arg |-> {}]
       ELSE /\ runs' = Append(runs, NewRun("sync", None, slide, interface, batch_size))
            /\ caller' = Len(runs) + 1
            /\ last' = [op |-> "generate", result |-> "blocked",
                        warned |-> FALSE, run |-> Len(runs) + 1, arg |-> {}]
    /\ UNCHANGED <<ctor, args, attrs, predictions, uncertainty, file, saved, figures, widget>>

\* a generate() that swallows the exception of _generate
Mut_SyncGenerate(exc) == "None"

\* "_generate(); return None": what generate(asynchronous=False) hands to
\* its caller when _generate ended with exc ("None" when it returned)
SyncGenerate(exc) == IF exc # "None" THEN exc ELSE "None"

\* _generate of run i has ended with exc
Ended(i, exc) ==
    IF runs[i].mode = "sync"
    THEN /\ caller' = 0
         /\ IF ctor = "generating"
            THEN /\ ctor' = IF SyncGenerate(exc) = "None" THEN "ok" ELSE SyncGenerate(exc)
                 /\ last' = last
            ELSE /\ ctor' = ctor
                 /\ last' = [op |-> "generate", result |-> SyncGenerate(exc),
                             warned |-> FALSE, run |-> i, arg |-> {}]
    ELSE UNCHANGED <<caller, ctor, last>>

\* an interface that takes up a failed run again with its next batch
Mut_InterfaceBatch(i) ==
    /\ i \in DOMAIN runs
    /\ runs[i].status \in {"running", "failed"}
    /\ runs[i].commit = <<>>
    /\ runs[i].pending # {}
    /\ \E b \in Window(runs[i].pending, PoolSize(num_threads, num_processes)),
          ok \in BOOLEAN :
          IF ok
          THEN /\ runs' = [runs EXCEPT ![i].pending = @ \ {b},
                                       ![i].commit = Batch(TileStream(slide), batch_size, b),
                                       ![i].status = "running"]
               /\ UNCHANGED <<caller, ctor, last>>
          ELSE /\ runs' = [runs EXCEPT ![i].status = "failed"]
               /\ Ended(i, "InferenceError")
    /\ UNCHANGED <<args, attrs, predictions, uncertainty, file, saved, figures, widget>>

\* the interface takes the next batch of tiles and runs the model on it;
\* the model returns the batch's outputs or raises
InterfaceBatch(i) ==
    /\ i \in DOMAIN runs
    /\ runs[i].status = "running"
    /\ runs[i].commit = <<>>
    /\ runs[i].pending # {}
    /\ \E b \in Window(runs[i].pending, PoolSize(num_threads, num_processes)),
          ok \in BOOLEAN :
          IF ok
          THEN /\ runs' = [runs EXCEPT ![i].pending = @ \ {b},
                                       ![i].commit = Batch(TileStream(slide), batch_size, b)]
               /\ UNCHANGED <<caller, ctor, last>>
          ELSE /\ runs' = [runs EXCEPT ![i].status = "failed"]
               /\ Ended(i, "InferenceError")
    /\ UNCHANGED <<args, attrs, predictions, uncertainty, file, saved, figures, widget>>

\* an interface that writes a tile's output into the first cell, in
\* row-major order, that is still free
Mut_InterfaceCommitNext(i) ==
    /\ i \in DOMAIN runs
    /\ runs[i].status = "running"
    /\ runs[i].commit # <<>>
    /\ LET loc == Head(runs[i].commit)
           free == {k \in 1..Len(TileStream(slide)) :
                      LET l == TileStream(slide)[k]
                      IN  runs[i].grid[<<l[2], l[1]>>][1] = Sentinel}
           first == TileStream(slide)[CHOOSE k \in free : \A m \in free : k <= m]
       IN  runs' = [runs EXCEPT ![i].grid[<<first[2], first[1]>>] = Infer(interface, loc),
                                ![i].commit = Tail(@)]
    /\ UNCHANGED <<ctor, args, attrs, predictions, uncertainty, caller, last, file, saved, figures, widget>>

\* an interface that writes a cell one channel at a time
Mut_InterfaceCommitChannel(i) ==
    /\ i \in DOMAIN runs
    /\ runs[i].status = "running"
    /\ runs[i].commit # <<>>
    /\ LET loc == Head(runs[i].commit)
       IN  runs' = [runs EXCEPT
                ![i].grid[<<loc[2], loc[1]>>][1] = Infer(interface, loc)[1],
                ![i].commit = Tail(@)]
    /\ UNCHANGED <<ctor, args, attrs, predictions, uncertainty, caller, last, file, saved, figures, widget>>

\* an interface that resets the rest of the grid when it writes a cell
Mut_InterfaceCommit(i) ==
    /\ i \in DOMAIN runs
    /\ runs[i].status = "running"
    /\ runs[i].commit # <<>>
    /\ LET loc == Head(runs[i].commit)
       IN  runs' = [runs EXCEPT
                ![i].grid = [c \in DOMAIN @ |->
                                IF c = <<loc[2], loc[1]>>
                                THEN Infer(interface, loc)
                                ELSE [ch \in 1..NumChannels(interface) |-> Sentinel]],
                ![i].commit = Tail(@)]
    /\ UNCHANGED <<ctor, args, attrs, predictions, uncertainty, caller, last, file, saved, figures, widget>>

\* the interface writes the output vector of one tile into its grid cell
InterfaceCommit(i) ==
    /\ i \in DOMAIN runs
    /\ runs[i].status = "running"
    /\ runs[i].commit # <<>>
    /\ LET loc == Head(runs[i].commit)
       IN  runs' = [runs EXCEPT ![i].grid[<<loc[2], loc[1]>>] = Infer(interface, loc),
                                ![i].commit = Tail(@)]
    /\ UNCHANGED <<ctor, args, attrs, predictions, uncertainty, caller, last, file, saved, figures, widget>>

\* a split that takes out[:, :, :k] for the predictions
Mut_SplitPredictions(uq_, out, k) == IF uq_ THEN Arr(ArrSliceTo(out, k)) ELSE Arr(out)

\* out[:, :, :-(self.num_uncertainty)] if self.uq else out
SplitPredictions(uq_, out, k) == IF uq_ THEN Arr(ArrSliceTo(out, -k)) ELSE Arr(out)

\* out[:, :, -(self.num_uncertainty):] if self.uq else None
SplitUncertainty(uq_, out, k) == IF uq_ THEN Arr(ArrSliceFrom(out, -k)) ELSE None

\* _generate: the interface has returned out; "self.predictions = ..."
AssignPredictions(i) ==
    /\ i \in DOMAIN runs
    /\ runs[i].status = "running"
    /\ runs[i].commit = <<>>
    /\ runs[i].pending = {}
    /\ predictions' = SplitPredictions(uq, runs[i].grid, interface.num_uncertainty)
    /\ runs' = [runs EXCEPT ![i].status = "assigning"]
    /\ UNCHANGED <<ctor, args, attrs, uncertainty, caller, last, file, saved, figures, widget>>

\* a _generate that does not return after its last assignment
Mut_AssignUncertainty(i) ==
    /\ i \in DOMAIN runs
    /\ runs[i].status = "assigning"
    /\ uncertainty' = SplitUncertainty(uq, runs[i].grid, interface.num_uncertainty)
    /\ UNCHANGED <<ctor, args, attrs, predictions, runs, caller, last, file, saved, figures, widget>>

\* _generate: "self.uncertainty = ...", after which _generate returns
AssignUncertainty(i) ==
    /\ i \in DOMAIN runs
    /\ runs[i].status = "assigning"
    /\ uncertainty' = SplitUncertainty(uq, runs[i].grid, interface.num_uncertainty)
    /\ runs' = [runs EXCEPT ![i].status = "completed"]
    /\ Ended(i, "None")
    /\ UNCHANGED <<args, attrs, predictions, file, saved, figures, widget>>

\* what heatmap_thread.join() gives the caller once the thread whose target
\* is _generate has ended with the given status: Thread.join returns None
\* however the target ended
ThreadJoin(status) == "None"

\* the caller joins the thread returned by generate(asynchronous=True)
join(i) ==
    /\ ctor = "ok"
    /\ caller = 0
    /\ i \in DOMAIN runs
    /\ runs[i].mode = "async"
    /\ runs[i].status \in {"completed", "failed"}
    /\ last' = [op |-> "join", result |-> ThreadJoin(runs[i].status),
                warned |-> FALSE, run |-> i, arg |-> {}]
    /\ UNCHANGED <<ctor, args, attrs, predictions, uncertainty, runs, caller, file, saved, figures, widget>>

\* ------------------------------------------------------------ persistence
\* np.savez stores an array as it is and None as a pickled object array
Stored(v) == IF v = None THEN ObjNone ELSE v

\* np_kwargs of save_npz
SaveContainer(uq_, p, u) ==
    IF uq_
    THEN [k \in {"predictions", "uncertainty"} |->
            IF k = "predictions" THEN Stored(p) ELSE Stored(u)]
    ELSE [k \in {"predictions"} |-> Stored(p)]

\* Heatmap.save_npz
save_npz ==
    /\ ctor = "ok"
    /\ caller = 0
    /\ file' = Npz(SaveContainer(uq, predictions, uncertainty))
    /\ saved' = [predictions |-> predictions, uncertainty |-> uncertainty]
    /\ last' = [op |-> "save_npz", result |-> "path", warned |-> FALSE, run |-> 0, arg |-> {}]
    /\ UNCHANGED <<ctor, args, attrs, predictions, uncertainty, runs, caller, figures, widget>>

\* a test that takes a grid still being filled for "not yet generated"
Mut_NotGenerated(p) == p = None \/ \E i \in DOMAIN runs : runs[i].status = "running"

\* "if self.predictions is None: raise errors.HeatmapError(...)"
NotGenerated(p) == p = None

\* Heatmap.plot(class_idx): draws the heatmap on the axis
plot ==
    /\ ctor = "ok"
    /\ caller = 0
    /\ IF NotGenerated(predictions)
       THEN /\ last' = [op |-> "plot", result |-> "HeatmapError",
                        warned |-> FALSE, run |-> 0, arg |-> {}]
            /\ UNCHANGED figures
       ELSE /\ last' = [op |-> "plot", result |-> "None",
                        warned |-> FALSE, run |-> 0, arg |-> {}]
            /\ figures' = figures \cup {"axis"}
    /\ UNCHANGED <<ctor, args, attrs, predictions, uncertainty, runs, caller, file, saved, widget>>

\* Heatmap.save(outdir): save_npz, then one .png per class
save ==
    /\ ctor = "ok"
    /\ caller = 0
    /\ IF NotGenerated(predictions)
       THEN /\ last' = [op |-> "save", result |-> "HeatmapError",
                        warned |-> FALSE, run |-> 0, arg |-> {}]
            /\ UNCHANGED <<file, saved, figures, widget>>
       ELSE /\ last' = [op |-> "save", result |-> "None",
                        warned |-> FALSE, run |-> 0, arg |-> {}]
            /\ file' = Npz(SaveContainer(uq, predictions, uncertainty))
            /\ saved' = [predictions |-> predictions, uncertainty |-> uncertainty]
            /\ figures' = figures \cup {"png"}
    /\ UNCHANGED <<ctor, args, attrs, predictions, uncertainty, runs, caller, widget>>

\* a load that prefers 'logits' whenever it is there
Mut_LoadKey(c) == IF "logits" \in DOMAIN c THEN "logits" ELSE "predictions"

\* the key load_npz reads predictions from
LoadKey(c) ==
    IF ("predictions" \notin DOMAIN c) /\ ("logits" \in DOMAIN c)
    THEN "logits" ELSE "predictions"

\* npzfile[k]: KeyError for a missing key, ValueError for a pickled object
\* (np.load is called with its default allow_pickle=False)
Access(c, k) ==
    IF k \notin DOMAIN c THEN "KeyError"
    ELSE IF c[k] = ObjNone THEN "ValueError" ELSE "ok"

\* a load that reads 'uncertainty' before it reads the predictions
Mut_load_npz(c) ==
    /\ ctor = "ok"
    /\ caller = 0
    /\ uncertainty' = IF Access(c, "uncertainty") = "ok" THEN c["uncertainty"] ELSE uncertainty
    /\ LET k == LoadKey(c)
       IN  /\ predictions' = IF Access(c, k) = "ok" THEN c[k] ELSE predictions
           /\ last' = [op |-> "load_npz",
                       result |-> IF Access(c, k) # "ok" THEN Access(c, k) ELSE "None",
                       warned |-> (k = "logits"), run |-> 0, arg |-> DOMAIN c]
    /\ UNCHANGED <<ctor, args, attrs, runs, caller, file, saved, figures, widget>>

\* Heatmap.load_npz on the container c
load_npz(c) ==
    /\ ctor = "ok"
    /\ caller = 0
    /\ LET k == LoadKey(c)
           warned == (k = "logits")
       IN  IF Access(c, k) # "ok"
           THEN /\ last' = [op |-> "load_npz", result |-> Access(c, k),
                            warned |-> warned, run |-> 0, arg |-> DOMAIN c]
                /\ UNCHANGED <<predictions, uncertainty>>
           ELSE /\ predictions' = c[k]
                /\ IF "uncertainty" \in DOMAIN c
                   THEN IF Access(c, "uncertainty") # "ok"
                        THEN /\ last' = [op |-> "load_npz",
                                         result |-> Access(c, "uncertainty"),
                                         warned |-> warned, run |-> 0, arg |-> DOMAIN c]
                             /\ UNCHANGED uncertainty
                        ELSE /\ uncertainty' = c["uncertainty"]
                             /\ last' = [op |-> "load_npz", result |-> "None",
                                         warned |-> warned, run |-> 0, arg |-> DOMAIN c]
                   ELSE /\ UNCHANGED uncertainty
                        /\ last' = [op |-> "load_npz", result |-> "None",
                                    warned |-> warned, run |-> 0, arg |-> DOMAIN c]
    /\ UNCHANGED <<ctor, args, attrs, runs, caller, file, saved, figures, widget>>

\* the containers load_npz can be pointed at
Loadable == ExtContainers \cup (IF file = NoFile THEN {} ELSE {file.v})

\* ---------------------------------------------------------- ProjectWidget
\* the paths the widget is given: '' and the project directories
ProjectPaths == {EmptyPath} \cup (1..MaxProjects)

In(project, list) == \E k \in 1..Len(list) : list[k] = project

\* list.remove(x): removes the first occurrence of x
ListRemove(list, x) ==
    LET k == CHOOSE j \in 1..Len(list) : list[j] = x /\ \A m \in 1..(j - 1) : list[m] # x
    IN  SubSeq(list, 1, k - 1) \o SubSeq(list, k + 1, Len(list))

\* an add_recent that appends without looking
Mut_add_recent(project) ==
    /\ Len(widget.recent_projects) <= MaxProjects
    /\ widget' = [widget EXCEPT
                    !.recent_projects = Append(@, project),
                    !.last = [op |-> "add_recent", project |-> project, raised |-> FALSE]]
    /\ UNCHANGED <<ctor, args, attrs, predictions, uncertainty, runs, caller, last,
                   file, saved, figures>>

\* ProjectWidget.add_recent(project, ignore_errors=True)
add_recent(project) ==
    /\ widget' = [widget EXCEPT
                    !.recent_projects = IF In(project, @) THEN @ ELSE Append(@, project),
                    !.last = [op |-> "add_recent", project |-> project, raised |-> FALSE]]
    /\ UNCHANGED <<ctor, args, attrs, predictions, uncertainty, runs, caller, last,
                   file, saved, figures>>

\* ProjectWidget.load(project, ignore_errors=True); opens tells whether
\* sf.Project(project) and the reading of its dataset succeed
load(project, opens) ==
    LET recent == <<project>> \o (IF In(project, widget.recent_projects)
                                  THEN ListRemove(widget.recent_projects, project)
                                  ELSE widget.recent_projects)
    IN  /\ IF opens
           THEN widget' = [recent_projects |-> recent, cur_project |-> project,
                           user_project |-> project, P |-> project,
                           last |-> [op |-> "load", project |-> project, raised |-> FALSE]]
           \* sf.Project(project) fails, or it is assigned and the dataset fails
           ELSE \E P \in {widget.P} \cup ({project} \ {EmptyPath}) :
                widget' = [recent_projects |-> recent, cur_project |-> NoProject,
                           user_project |-> project, P |-> P,
                           last |-> [op |-> "load", project |-> project, raised |-> TRUE]]
        /\ UNCHANGED <<ctor, args, attrs, predictions, uncertainty, runs, caller, last,
                       file, saved, figures>>

\* the path '' is no project: opening it fails
Opens(project) == IF project = EmptyPath THEN {FALSE} ELSE BOOLEAN

\* ---------------------------------------------------------- specifications
Next ==
    \/ Heatmap_init
    \/ \E a \in BOOLEAN : generate(a)
    \/ \E i \in 1..MaxRuns : InterfaceBatch(i)
    \/ \E i \in 1..MaxRuns : InterfaceCommit(i)
    \/ \E i \in 1..MaxRuns : AssignPredictions(i)
    \/ \E i \in 1..MaxRuns : AssignUncertainty(i)
    \/ \E i \in 1..MaxRuns : join(i)

Spec == Init /\ [][Next]_vars

\* The persistence operations act on predictions and uncertainty only:
\* they are explored on instances over a slide of one tile, together with
\* the synchronous generation that fills predictions and uncertainty.
PersistConfigs ==
    UNION {{Call([shape |-> <<1, 1>>, excluded |-> {}], NoCount, NoCount, u, it, 1, g) :
               it \in Interfaces(u), g \in BOOLEAN} :
           u \in BOOLEAN}

InitPersist == InitWith(PersistConfigs)

NextPersist ==
    \/ Heatmap_init
    \/ generate(FALSE)
    \/ \E i \in 1..MaxRuns : InterfaceBatch(i)
    \/ \E i \in 1..MaxRuns : InterfaceCommit(i)
    \/ \E i \in 1..MaxRuns : AssignPredictions(i)
    \/ \E i \in 1..MaxRuns : AssignUncertainty(i)
    \/ save_npz
    \/ \E c \in Loadable : load_npz(c)

SpecPersist == InitPersist /\ [][NextPersist]_vars

\* The claims about the course of a run are explored on the instances built
\* with a thread pool: the pool's kind does not enter generate().
RunConfigs == {a \in Configs : a.num_threads = MaxWorkers /\ a.num_processes = NoCount}

InitRun == InitWith(RunConfigs)

SpecRun == InitRun /\ [][Next]_vars

\* plot() and save() are explored on instances over a slide of one tile,
\* together with generation in both modes and with loads of the containers
\* that hold 'predictions'.
OutputContainers == {c \in ExtContainers : "predictions" \in DOMAIN c}

NextOutput ==
    \/ Heatmap_init
    \/ \E a \in BOOLEAN : generate(a)
    \/ \E i \in 1..MaxRuns : InterfaceBatch(i)
    \/ \E i \in 1..MaxRuns : InterfaceCommit(i)
    \/ \E i \in 1..MaxRuns : AssignPredictions(i)
    \/ \E i \in 1..MaxRuns : AssignUncertainty(i)
    \/ \E c \in OutputContainers : load_npz(c)
    \/ plot
    \/ save

SpecOutput == InitPersist /\ [][NextOutput]_vars

\* The ProjectWidget is explored on its own; no Heatmap is built.
NextWidget ==
    \/ \E project \in ProjectPaths : add_recent(project)
    \/ \E project \in ProjectPaths : \E opens \in Opens(project) : load(project, opens)

SpecWidget == InitPersist /\ [][NextWidget]_vars

\* The constructor's handling of the slide argument is explored on calls
\* of both classes with a path, a WSI object or another value as slide, on
\* the slides without excluded tiles, followed by generation.
StrideArgs == {{}, {-1}, {0}, {2}}

GeneratorKwargs == {{}, {FALSE}, {TRUE}}

CtorBase ==
    {[Call(sl, NoCount, NoCount, FALSE, it, MaxBatch, g) EXCEPT !.generator_kwargs = kw] :
        sl \in {x \in Slides : x.excluded = {}}, it \in Interfaces(FALSE),
        g \in BOOLEAN, kw \in GeneratorKwargs}

\* tile_px / tile_um of a call: those of the model for Heatmap, the
\* optional arguments for ModelHeatmap
TileArgs(c) ==
    IF c = "Heatmap" THEN {<<1, 1>>}
    ELSE {<<NoCount, NoCount>>, <<1, NoCount>>, <<NoCount, 1>>, <<1, 1>>}

CtorConfigs ==
    UNION {
        {[b EXCEPT !.cls = c, !.slide_kind = "str", !.stride_div = sd,
                   !.loads = l, !.tile_px = t[1], !.tile_um = t[2]] :
            sd \in StrideArgs, l \in BOOLEAN, t \in TileArgs(c)}
        \cup
        {[b EXCEPT !.cls = c, !.slide_kind = "WSI", !.stride_div = sd,
                   !.wsi = WSISettings(px, um, 1), !.tile_px = t[1], !.tile_um = t[2]] :
            sd \in {{}, {2}}, px \in TileSizes, um \in TileSizes,
            t \in TileArgs(c) \cap {<<NoCount, NoCount>>, <<1, 1>>}}
        \cup
        {[b EXCEPT !.cls = c, !.slide_kind = "other", !.tile_px = 1, !.tile_um = 1]}
        : b \in CtorBase, c \in {"Heatmap", "ModelHeatmap"}}

InitCtor == InitWith(CtorConfigs)

NextCtor ==
    \/ Heatmap_init
    \/ \E a \in BOOLEAN : generate(a)
    \/ \E i \in 1..MaxRuns : InterfaceBatch(i)
    \/ \E i \in 1..MaxRuns : InterfaceCommit(i)
    \/ \E i \in 1..MaxRuns : AssignPredictions(i)
    \/ \E i \in 1..MaxRuns : AssignUncertainty(i)

SpecCtor == InitCtor /\ [][NextCtor]_vars

\* The thread of a run is scheduled fairly: a step of _generate or of the
\* interface that stays possible is eventually taken. A batch call of the
\* interface returns or raises. Nothing is assumed of the caller.
Fairness ==
    \A i \in 1..MaxRuns :
        /\ WF_vars(InterfaceBatch(i))
        /\ WF_vars(InterfaceCommit(i))
        /\ WF_vars(AssignPredictions(i))
        /\ WF_vars(AssignUncertainty(i))

\* Termination is explored on the instances built with generate=False and
\* the largest batch size.
LiveConfigs == {a \in RunConfigs : ~a.generate /\ a.batch_size = MaxBatch}

InitLive == InitWith(LiveConfigs)

SpecLive == InitLive /\ [][Next]_vars /\ Fairness

\* ------------------------------------------------------------ properties
Alive(i) == runs[i].status \in {"running", "assigning"}

Cells(i) == DOMAIN runs[i].grid

\* the lifecycle state of the i-th run of the instance: idle until
\* generate() has created it, running while _generate executes, then
\* completed or failed
Life(i) ==
    IF i \notin DOMAIN runs THEN "idle"
    ELSE IF Alive(i) THEN "running" ELSE runs[i].status

\* the cell c of run i has been written: it no longer holds the -1 vector
Committed(i, c) == \E ch \in 1..Len(runs[i].grid[c]) : runs[i].grid[c][ch] # Sentinel

\* C1: a constructor call with both num_threads and num_processes given
\* ends in ValueError with no attribute of the instance assigned (no
\* interface built, no slide, no predictions, no uncertainty) and no call of
\* the interface.
C1_BothPoolsRejected ==
    (ctor # "none" /\ args.num_threads # NoCount /\ args.num_processes # NoCount)
        => (ctor = "ValueError" /\ assigned = {} /\ runs = <<>>)

C1_Witness ==
    ctor = "ValueError" /\ args.num_threads # NoCount /\ args.num_processes # NoCount

\* C2: after a synchronous generate() that succeeded, the cell of every tile
\* of the tile stream holds C = num_features + num_classes + num_uncertainty
\* values none of which is -1, and the cell of every excluded location holds
\* C values all of which are -1.
C2_SyncFill ==
    \A i \in DOMAIN runs :
        (runs[i].mode = "sync" /\ runs[i].status = "completed") =>
            \A loc \in AllLocs(slide.shape) :
                LET cell == runs[i].grid[<<loc[2], loc[1]>>]
                IN  /\ Len(cell) = NumChannels(interface)
                    /\ IF loc \in slide.excluded
                       THEN \A ch \in 1..Len(cell) : cell[ch] = Sentinel
                       ELSE \A ch \in 1..Len(cell) : cell[ch] # Sentinel

C2_Witness ==
    \E i \in DOMAIN runs :
        /\ runs[i].mode = "sync" /\ runs[i].status = "completed"
        /\ slide.excluded # {}
        /\ Len(TileStream(slide)) > 0
        /\ batch_size > 1

\* C3: on one instance, the grid of a completed asynchronous run equals, in
\* shape and in every channel of every cell, the grid of a completed
\* synchronous run.
C3_AsyncEqualsSync ==
    \A i \in DOMAIN runs : \A j \in DOMAIN runs :
        (/\ runs[i].mode = "async" /\ runs[i].status = "completed"
         /\ runs[j].mode = "sync" /\ runs[j].status = "completed")
            => runs[i].grid = runs[j].grid

C3_Witness ==
    \E i \in DOMAIN runs : \E j \in DOMAIN runs :
        /\ runs[i].mode = "async" /\ runs[i].status = "completed"
        /\ runs[j].mode = "sync" /\ runs[j].status = "completed"
        /\ slide.excluded # {}
        /\ Len(TileStream(slide)) > 0

\* C4: a call of generate() made while an asynchronous run of the instance
\* is still alive raises a state error and starts no run.
C4_SecondRunRejected ==
    [][\A a \in BOOLEAN :
        (generate(a) /\ \E i \in DOMAIN runs : runs[i].mode = "async" /\ Alive(i))
            => (last'.result = "StateError" /\ runs' = runs)]_vars

\* C5: when the caller joins the thread of an asynchronous run that failed,
\* the join hands the failure to the caller.
C5_FailureRetrievable ==
    (last.op = "join" /\ runs[last.run].status = "failed")
        => last.result = "InferenceError"

\* C6: the step in which the interface fails during a synchronous pass ends
\* generate() with that exception at its caller (the user, or __init__ and
\* through it the user); generate() has returned None only after a pass
\* that completed.
C6_SyncPropagates ==
    [][\A i \in DOMAIN runs :
        (/\ runs[i].mode = "sync"
         /\ runs[i].status # "failed"
         /\ runs'[i].status = "failed")
            => /\ caller' = 0
               /\ IF ctor = "generating"
                  THEN ctor' = "InferenceError"
                  ELSE /\ last'.op = "generate"
                       /\ last'.run = i
                       /\ last'.result = "InferenceError"]_vars

C6_Witness ==
    /\ last.op = "generate"
    /\ last.result = "InferenceError"
    /\ runs[last.run].mode = "sync"
    /\ runs[last.run].status = "failed"

\* C7: loading the container that save_npz wrote from a state with
\* predictions set succeeds and leaves predictions and uncertainty equal to
\* the values held at the save.
C7_RoundTrip ==
    [][(file # NoFile /\ saved.predictions # None /\ load_npz(file.v))
        => /\ last'.result = "None"
           /\ predictions' = saved.predictions
           /\ uncertainty' = saved.uncertainty]_vars

\* C8: a load of a container with 'logits' and without 'predictions' sets
\* predictions to the 'logits' value, logs the warning and does not raise; a
\* load of a container with 'predictions' logs no warning and takes
\* predictions from 'predictions'.
C8_LegacyKey ==
    [][\A c \in Loadable :
        load_npz(c) =>
            /\ ("predictions" \notin DOMAIN c /\ "logits" \in DOMAIN c)
                  => /\ predictions' = c["logits"]
                     /\ last'.warned
                     /\ last'.result = "None"
            /\ ("predictions" \in DOMAIN c)
                  => /\ ~last'.warned
                     /\ (c["predictions"] # ObjNone => predictions' = c["predictions"])]_vars

C8_Witness ==
    /\ last.op = "load_npz"
    /\ last.warned
    /\ last.result = "None"
    /\ last.arg = {"logits", "uncertainty"}
    /\ predictions = ExtValue("logits")

\* C9: a load of a container with neither 'predictions' nor 'logits' raises
\* and leaves predictions and uncertainty as they were.
C9_MissingKeys ==
    [][\A c \in Loadable :
        (load_npz(c) /\ "predictions" \notin DOMAIN c /\ "logits" \notin DOMAIN c)
            => /\ last'.result = "KeyError"
               /\ predictions' = predictions
               /\ uncertainty' = uncertainty]_vars

C9_Witness ==
    /\ last.op = "load_npz"
    /\ last.result = "KeyError"
    /\ last.arg = {"uncertainty"}
    /\ predictions # None
    /\ uncertainty # ExtValue("uncertainty")

C11_NoUncertaintyChannel ==
    \A i \in DOMAIN runs :
        (runs[i].status = "completed" /\ interface.num_uncertainty = 0) =>
            /\ \/ uncertainty = None
               \/ /\ uncertainty.tag = "array"
                  /\ \A c \in DOMAIN uncertainty.v : uncertainty.v[c] = <<>>
            /\ predictions.tag = "array"
            /\ DOMAIN predictions.v = Cells(i)
            /\ \A c \in Cells(i) : predictions.v[c] = runs[i].grid[c]

\* C12: the call generate(asynchronous=True) returns, without waiting for
\* the thread, a buffer of slide.grid.shape[1] rows, slide.grid.shape[0]
\* columns and C channels in which every value is -1, together with the
\* thread; the thread has written no cell when the call returns.
C12_AsyncAllocation ==
    [][generate(TRUE) =>
        LET i == Len(runs) + 1
            C == NumChannels(interface)
        IN  /\ Len(runs') = i
            /\ runs'[i].mode = "async"
            /\ DOMAIN runs'[i].grid = (1..slide.shape[2]) \X (1..slide.shape[1])
            /\ \A c \in DOMAIN runs'[i].grid :
                  runs'[i].grid[c] = [ch \in 1..C |-> Sentinel]
            /\ runs'[i].status = "running"
            /\ runs'[i].commit = <<>>
            /\ runs'[i].pending = 1..NumBatches(Len(TileStream(slide)), batch_size)
            /\ caller' = 0
            /\ last'.op = "generate"
            /\ last'.result = "grid, thread"
            /\ last'.run = i]_vars

C12_Witness ==
    /\ last.op = "generate"
    /\ last.result = "grid, thread"
    /\ last.run = Len(runs)
    /\ runs[last.run].status = "running"
    /\ runs[last.run].pending # {}
    /\ runs[last.run].commit = <<>>
    /\ \A c \in Cells(last.run) : \A ch \in 1..Len(runs[last.run].grid[c]) :
          runs[last.run].grid[c][ch] = Sentinel

\* C13: in the buffer of an asynchronous run, a cell that has been committed
\* keeps its value in every later step: it never goes back to -1 and never
\* changes, so the set of committed cells only grows.
C13_MonotonicFill ==
    [][\A i \in DOMAIN runs :
        runs[i].mode = "async" =>
            /\ i \in DOMAIN runs'
            /\ DOMAIN runs'[i].grid = Cells(i)
            /\ \A c \in Cells(i) :
                  Committed(i, c) => runs'[i].grid[c] = runs[i].grid[c]]_vars

C13_Witness ==
    \E i \in DOMAIN runs :
        /\ runs[i].mode = "async"
        /\ runs[i].status = "running"
        /\ runs[i].commit # <<>>
        /\ \E c \in Cells(i) : Committed(i, c)

\* C14: at every moment every cell of the buffer of a run holds C values
\* that are either all -1 or the complete output vector of the cell's tile;
\* no cell is ever partly written.
C14_CellAtomic ==
    \A i \in DOMAIN runs : \A c \in Cells(i) :
        LET cell == runs[i].grid[c]
        IN  /\ Len(cell) = NumChannels(interface)
            /\ \/ \A ch \in 1..Len(cell) : cell[ch] = Sentinel
               \/ cell = Infer(interface, <<c[2], c[1]>>)

C14_Witness ==
    \E i \in DOMAIN runs : \E c \in Cells(i) : \E d \in Cells(i) :
        /\ runs[i].mode = "async"
        /\ runs[i].status = "running"
        /\ Committed(i, c)
        /\ ~Committed(i, d)
        /\ <<d[2], d[1]>> \notin slide.excluded

\* C15: whatever calls of generate() are made on an instance, at most one
\* of its runs is alive at any moment.
C15_SingleRun ==
    Cardinality({i \in DOMAIN runs : Alive(i)}) <= 1

\* C16: a run goes only from idle to running, from running to completed and
\* from running to failed; completed and failed are final for the run;
\* no call of the caller (generate, join) changes the state of a run that
\* exists, so a run the caller has abandoned goes on; a new run starts in
\* running.
C16_Lifecycle ==
    [][/\ \A i \in 1..MaxRuns :
             \/ Life(i)' = Life(i)
             \/ <<Life(i), Life(i)'>> \in {<<"idle", "running">>,
                                          <<"running", "completed">>,
                                          <<"running", "failed">>}
       /\ \A a \in BOOLEAN :
             generate(a) => \A i \in DOMAIN runs : runs'[i] = runs[i]
       /\ \A j \in 1..MaxRuns : join(j) => runs' = runs]_vars

C16_Witness ==
    /\ Len(runs) = 2
    /\ runs[1].mode = "async"
    /\ runs[1].status = "failed"
    /\ runs[2].mode = "async"
    /\ runs[2].status = "completed"
    /\ last.op = "generate"
    /\ last.run = 2

\* C17: under fair scheduling of the threads, every asynchronous run that
\* has been started eventually is completed or failed, whatever the caller
\* does or does not do afterwards.
C17_Terminates ==
    \A i \in 1..MaxRuns :
        (i \in DOMAIN runs /\ runs[i].mode = "async")
            ~> (i \in DOMAIN runs /\ runs[i].status \in {"completed", "failed"})

C17_Witness ==
    \E i \in DOMAIN runs :
        /\ runs[i].mode = "async"
        /\ runs[i].status = "completed"
        /\ last.op = "generate"
        /\ last.run = i
        /\ Len(TileStream(slide)) > 1

\* C20: in every state of the instance, save_npz writes a container whose
\* keys are 'predictions' alone when uncertainty is absent, and
\* 'predictions' and 'uncertainty' when uncertainty is present.
C20_SaveKeys ==
    [][save_npz =>
        DOMAIN file'.v = IF uncertainty = None
                         THEN {"predictions"}
                         ELSE {"predictions", "uncertainty"}]_vars

\* C18: the buffer of every run has the rows and columns of the grid the
\* Tile Source reports for the slide, and the slide of an instance has the
\* tile size and stride divisor of the instance; a Heatmap built on a WSI
\* object whose tile size differs from the model's fails with ValueError,
\* gets no slide and starts no run.
C18_GridShape ==
    /\ \A i \in DOMAIN runs :
          Cells(i) = (1..args.slide.shape[2]) \X (1..args.slide.shape[1])
    /\ "slide" \in assigned =>
          /\ slide.shape = args.slide.shape
          /\ slide.tile_px = tile_px
          /\ slide.tile_um = tile_um
          /\ slide.stride_div = stride_div
    /\ (/\ ctor # "none"
        /\ args.cls = "Heatmap"
        /\ args.slide_kind = "WSI"
        /\ (args.wsi.tile_px # args.tile_px \/ args.wsi.tile_um # args.tile_um))
          => (ctor = "ValueError" /\ "slide" \notin assigned /\ runs = <<>>)

C18_Witness ==
    /\ ctor = "ValueError"
    /\ args.cls = "Heatmap"
    /\ args.slide_kind = "WSI"
    /\ args.wsi.tile_px = args.tile_px
    /\ args.wsi.tile_um # args.tile_um
    /\ args.generate

\* C19: a constructor call with a path as slide (of a slide the Tile Source
\* can load) and a stride divisor <= 0 fails with a configuration error,
\* loads no slide and starts no run; a
\* constructor call with a path as slide and no stride_div that succeeds
\* leaves the stride divisor at 2.
C19_StrideRejected ==
    /\ (/\ ctor # "none"
        /\ args.slide_kind = "str"
        /\ args.loads
        /\ args.stride_div # {}
        /\ StrideDivOf(args.stride_div) <= 0)
          => /\ ctor \in {"ValueError", "HeatmapError"}
             /\ "slide" \notin assigned
             /\ runs = <<>>
    /\ (/\ ctor \in {"ok", "generating"}
        /\ args.slide_kind = "str"
        /\ args.stride_div = {})
          => stride_div = DefaultStrideDiv

\* C29: a constructor call of either class with a path as slide, whose
\* opening raises SlideLoadError, fails with HeatmapError and starts no run.
C29_SlideLoadError ==
    (/\ ctor # "none"
     /\ args.slide_kind = "str"
     /\ ~args.loads
     /\ args.tile_px # NoCount
     /\ args.tile_um # NoCount)
        => (ctor = "HeatmapError" /\ runs = <<>>)

\* C21: a constructor call with generate=True that passes its checks calls
\* generate() exactly once, with generator_kwargs, and no second run exists
\* before the constructor has returned; a constructor call with
\* generate=False starts no run, warns that it ignores generator_kwargs
\* when there are any, and leaves predictions and uncertainty at None as
\* long as generate() has not been called.
C21_GenerateFlag ==
    [][/\ (Heatmap_init /\ ctor' \in {"ok", "generating"}) =>
             IF args.generate
             THEN /\ Len(runs') = 1
                  /\ runs'[1].mode = IF args.generator_kwargs = {TRUE} THEN "async" ELSE "sync"
                  /\ runs'[1].mode = "sync" => ctor' = "generating"
                  /\ "generator_kwargs" \notin init_warned'
             ELSE /\ runs' = <<>>
                  /\ ctor' = "ok"
                  /\ predictions' = None
                  /\ uncertainty' = None
                  /\ (args.generator_kwargs # {}) <=> ("generator_kwargs" \in init_warned')
       /\ ctor = "generating" => (Len(runs) = 1 /\ Len(runs') = 1)
       /\ (~args.generate /\ runs = <<>>) => (predictions = None /\ uncertainty = None)]_vars

C21_Witness ==
    /\ ctor = "ok"
    /\ ~args.generate
    /\ args.generator_kwargs = {TRUE}
    /\ "generator_kwargs" \in init_warned
    /\ runs = <<>>
    /\ predictions = None

\* C22: from the step in which the interface fails on a batch of a run, the
\* run stays failed, no batch of it is taken again, no cell of its buffer
\* is written, and the cells not committed before the failure hold -1.
C22_FailureAborts ==
    [][\A i \in DOMAIN runs :
        /\ runs[i].status = "failed" => (i \in DOMAIN runs' /\ runs'[i] = runs[i])
        /\ (i \in DOMAIN runs' /\ runs'[i].status = "failed") =>
            /\ runs'[i].grid = runs[i].grid
            /\ runs'[i].pending = runs[i].pending
            /\ runs'[i].commit = <<>>
            /\ runs[i].status \in {"running", "failed"}
            /\ \A c \in Cells(i) :
                  ~Committed(i, c) =>
                      runs'[i].grid[c] = [ch \in 1..NumChannels(interface) |-> Sentinel]]_vars

C22_Witness ==
    \E i \in DOMAIN runs : \E c \in Cells(i) : \E d \in Cells(i) :
        /\ runs[i].mode = "async"
        /\ runs[i].status = "failed"
        /\ Committed(i, c)
        /\ ~Committed(i, d)
        /\ <<d[2], d[1]>> \notin slide.excluded
        /\ runs[i].pending # {}

\* C23: with a pool of more than one worker, whatever the order in which
\* the batches of a run complete, the buffer of a completed run holds in
\* the cell of every tile that tile's output vector and -1 in every other
\* cell.
C23_OrderIndependent ==
    \A i \in DOMAIN runs :
        (runs[i].status = "completed" /\ PoolSize(num_threads, num_processes) > 1) =>
            \A loc \in AllLocs(slide.shape) :
                runs[i].grid[<<loc[2], loc[1]>>] =
                    IF loc \in slide.excluded
                    THEN [ch \in 1..NumChannels(interface) |-> Sentinel]
                    ELSE Infer(interface, loc)

\* a later batch has completed and is being committed before the first one
C23_Witness ==
    \E i \in DOMAIN runs :
        /\ PoolSize(num_threads, num_processes) > 1
        /\ runs[i].status = "running"
        /\ 1 \in runs[i].pending
        /\ 2 \notin runs[i].pending
        /\ runs[i].commit # <<>>
        /\ NumBatches(Len(TileStream(slide)), batch_size) >= 2

\* C24: a call of plot() or of save() made while predictions is None raises
\* HeatmapError, draws nothing and writes neither the .npz file nor an
\* image; a call made while predictions is not None does not raise
\* HeatmapError.
C24_NotGenerated ==
    [][/\ plot =>
             IF predictions = None
             THEN last'.result = "HeatmapError" /\ figures' = figures
             ELSE last'.result # "HeatmapError"
       /\ save =>
             IF predictions = None
             THEN last'.result = "HeatmapError" /\ figures' = figures /\ file' = file
             ELSE last'.result # "HeatmapError"]_vars

C24_Witness ==
    /\ last.op = "save"
    /\ last.result = "HeatmapError"
    /\ predictions = None
    /\ ~args.generate
    /\ file = NoFile
    /\ \E i \in DOMAIN runs :
          runs[i].mode = "async" /\ runs[i].status = "running" /\ runs[i].commit # <<>>

\* C25: as long as the grid pass of an asynchronous run has not finished,
\* predictions and uncertainty keep the values they had when the run
\* started: no step taken while the run is, and stays, in its pass changes
\* either of them.
C25_AccessorsStable ==
    [][\A i \in DOMAIN runs :
        (/\ runs[i].mode = "async"
         /\ runs[i].status = "running"
         /\ i \in DOMAIN runs'
         /\ runs'[i].status = "running")
            => (predictions' = predictions /\ uncertainty' = uncertainty)]_vars

\* C26: with uq enabled, whenever predictions holds the predictions of a
\* run, uncertainty holds the uncertainty of that same run: while a run is
\* between its two assignments no state shows its predictions next to
\* another uncertainty.
C26_PairPublished ==
    \A i \in DOMAIN runs :
        (/\ uq
         /\ runs[i].mode = "async"
         /\ runs[i].status = "assigning"
         /\ predictions = SplitPredictions(uq, runs[i].grid, interface.num_uncertainty))
            => uncertainty = SplitUncertainty(uq, runs[i].grid, interface.num_uncertainty)

\* C27: a load_npz that succeeds leaves uncertainty equal to the
\* container's 'uncertainty' when the container has that key, and None when
\* it has not, whatever uncertainty was before.
C27_LoadResetsUncertainty ==
    [][\A c \in Loadable :
        (load_npz(c) /\ last'.result = "None") =>
            uncertainty' = IF "uncertainty" \in DOMAIN c THEN c["uncertainty"] ELSE None]_vars

\* C28: when the first run of an instance built with generate=False fails,
\* predictions and uncertainty are what they were before its generate()
\* was called, that is None, in both modes.
C28_FailedRunFrame ==
    [][(/\ ~args.generate
        /\ 1 \in DOMAIN runs
        /\ runs[1].status # "failed"
        /\ runs'[1].status = "failed")
            => (predictions' = None /\ uncertainty' = None)]_vars

\* C30: after every add_recent and every load(p, ignore_errors=True),
\* recent_projects holds no project twice; after load(p) the project p is
\* first in recent_projects whether or not it could be opened; after a
\* load that failed cur_project is None and user_project is p, and after a
\* load that succeeded cur_project is p.
C30_RecentProjects ==
    [][/\ \A j \in 1..Len(widget'.recent_projects) :
             \A k \in 1..Len(widget'.recent_projects) :
                 widget'.recent_projects[j] = widget'.recent_projects[k] => j = k
       /\ \A project \in ProjectPaths : \A opens \in Opens(project) :
             load(project, opens) =>
                 /\ widget'.recent_projects[1] = project
                 /\ IF opens
                    THEN widget'.cur_project = project
                    ELSE /\ widget'.cur_project = NoProject
                         /\ widget'.user_project = project]_vars

C30_Witness ==
    /\ widget.last.op = "load"
    /\ widget.last.raised
    /\ widget.last.project # EmptyPath
    /\ Len(widget.recent_projects) = MaxProjects + 1
    /\ widget.recent_projects[1] = widget.last.project
    /\ widget.cur_project = NoProject
    /\ widget.user_project = widget.last.project
    /\ widget.P # NoProject

====
